---- MODULE Spec2Model ----
(***************************************************************************)
(* A model of dashboard.py: the SystemdDashboard engine (tracked-service   *)
(* registry, toggle store, unit status collector, control executor, log    *)
(* reader, disk and RAM surveyors) and the DashboardRequestHandler that    *)
(* exposes it over HTTP.                                                   *)
(*                                                                         *)
(* External tools (systemctl, journalctl, df, free, /proc/meminfo) are     *)
(* inputs: every call draws the outcome of subprocess.run from a bounded   *)
(* set (completed with an exit code and output, TimeoutExpired,            *)
(* FileNotFoundError, another OSError).  Text output is given line by line *)
(* and column by column; the conversions the code applies to it (rstrip,   *)
(* isdigit, int, json.loads, float, the byte formatter) are operators.     *)
(***************************************************************************)
EXTENDS Integers, Sequences, FiniteSets, Bags, TLC

VARIABLES
    tracked_services,   \* table tracked_services: the bag of service_name values of its rows
    service_toggles,    \* table service_toggles: the bag of its rows
    lastWrite,          \* history: per (service, toggle type), the value of the latest set_toggle_state
    call,               \* the engine call made last: its name, arguments and what the tools answered
    ret,                \* what that call returned
    request,            \* the HTTP request handled last
    response,           \* the HTTP response sent for it, or the exception that escaped the handler
    invoked             \* the commands run through sudo while handling the last call or request

vars == <<tracked_services, service_toggles, lastWrite, call, ret, request, response, invoked>>

storeVars == <<tracked_services, service_toggles, lastWrite>>
httpVars == <<request, response>>

(***************************************************************************)
(* Universe of service names and toggle types.                             *)
(***************************************************************************)

\* The names in the order SQLite's ORDER BY service_name (BINARY collation) puts them.
NameOrder == <<"cron", "nginx", "sshd">>

Names == {NameOrder[i] : i \in 1..Len(NameOrder)}

ToggleTypes == {"logs", "journal"}

Pairs == Names \X ToggleTypes

None == [type |-> "NoneType"]

Repeat(x, k) == [i \in 1..k |-> x]

(***************************************************************************)
(* Tracked Service Registry                                                *)
(***************************************************************************)

\* INSERT INTO tracked_services without the UNIQUE constraint on service_name.
InsertTrackedNoUnique(table, service_name) ==
    [integrity_error |-> FALSE, table |-> table (+) SetToBag({service_name})]

\* INSERT INTO tracked_services (service_name): service_name is UNIQUE, so a
\* second row with the same name raises sqlite3.IntegrityError and inserts nothing.
InsertTracked(table, service_name) ==
    IF BagIn(service_name, table)
    THEN [integrity_error |-> TRUE, table |-> table]
    ELSE [integrity_error |-> FALSE, table |-> table (+) SetToBag({service_name})]

\* DELETE FROM tracked_services WHERE service_name = ?
DeleteTracked(table, service_name) ==
    [n \in (DOMAIN table) \ {service_name} |-> table[n]]

RECURSIVE OrderByName(_, _)
\* SELECT service_name ... ORDER BY service_name, from position i of NameOrder on.
OrderByName(table, i) ==
    IF i > Len(NameOrder) THEN <<>>
    ELSE Repeat(NameOrder[i], CopiesIn(NameOrder[i], table)) \o OrderByName(table, i + 1)

get_tracked_services(table) == OrderByName(table, 1)

add_service(table, service_name) ==
    LET ins == InsertTracked(table, service_name) IN
    IF ins.integrity_error
    THEN [table |-> table, value |-> FALSE]
    ELSE [table |-> ins.table, value |-> TRUE]

\* The database file: the two tables init_db creates.  A statement changes the
\* table it names; the schema declares no foreign key and no trigger.
Database(tracked, toggles) == [tracked_services |-> tracked, service_toggles |-> toggles]

\* A removal that takes the toggle rows of the service with it, as a foreign key
\* with ON DELETE CASCADE would.
remove_service_cascade(db, service_name) ==
    [db |-> [tracked_services |-> DeleteTracked(db.tracked_services, service_name),
             service_toggles |->
                 [r \in {x \in DOMAIN db.service_toggles : x.service_name # service_name}
                    |-> db.service_toggles[r]]],
     value |-> None]

remove_service(db, service_name) ==
    [db |-> [db EXCEPT !.tracked_services = DeleteTracked(@, service_name)],
     value |-> None]

(***************************************************************************)
(* Toggle State Store                                                      *)
(***************************************************************************)

\* sqlite3 stores a Python bool as the integer 1 or 0.
SqlBool(b) == IF b THEN 1 ELSE 0

ToggleRow(service_name, toggle_type, is_expanded) ==
    [service_name |-> service_name, toggle_type |-> toggle_type,
     is_expanded |-> SqlBool(is_expanded)]

RowsOf(table, service_name, toggle_type) ==
    {r \in BagToSet(table) :
        r.service_name = service_name /\ r.toggle_type = toggle_type}

\* A plain INSERT that ignores UNIQUE(service_name, toggle_type): the old row stays.
InsertToggleKeepOld(table, service_name, toggle_type, is_expanded) ==
    table (+) SetToBag({ToggleRow(service_name, toggle_type, is_expanded)})

\* INSERT OR REPLACE INTO service_toggles: the rows that conflict on
\* UNIQUE(service_name, toggle_type) are deleted, then the new row is inserted.
InsertOrReplaceToggle(table, service_name, toggle_type, is_expanded) ==
    LET conflicting == RowsOf(table, service_name, toggle_type)
        kept == [r \in (DOMAIN table) \ conflicting |-> table[r]]
    IN kept (+) SetToBag({ToggleRow(service_name, toggle_type, is_expanded)})

set_toggle_state(db, service_name, toggle_type, is_expanded) ==
    [db |-> [db EXCEPT !.service_toggles =
                InsertOrReplaceToggle(@, service_name, toggle_type, is_expanded)],
     value |-> None]

\* The values get_toggle_state may return: fetchone() gives a matching row
\* (SQLite picks which when there are several), result[0] is its integer
\* is_expanded; with no row the Python literal False is returned.
get_toggle_state(table, service_name, toggle_type) ==
    LET rows == RowsOf(table, service_name, toggle_type) IN
    IF rows = {}
    THEN {[type |-> "bool", v |-> FALSE]}
    ELSE {[type |-> "int", v |-> r.is_expanded] : r \in rows}

\* Python's ==, between a value returned by get_toggle_state and a bool.
PyEq(x, b) ==
    \/ x.type = "bool" /\ x.v = b
    \/ x.type = "int" /\ x.v = SqlBool(b)

(***************************************************************************)
(* Python strings.  A str the code only passes along is Lit(s); a str the  *)
(* code inspects character by character is Chars(cs), cs the sequence of   *)
(* its characters; a str the code formats carries the numbers it was       *)
(* formatted from.  All are records with a field fmt, so any two compare.  *)
(***************************************************************************)

Lit(s) == [fmt |-> "lit", s |-> s]

Chars(cs) == [fmt |-> "chars", cs |-> cs]

NA == Lit("N/A")

AsciiDigits == {"0", "1", "2", "3", "4", "5", "6", "7", "8", "9"}

\* Characters for which str.isdigit() is true: the ASCII digits and, among
\* others, SUPERSCRIPT TWO (written "sup2"), which int() does not accept.
UnicodeDigits == AsciiDigits \cup {"sup2"}

DigitValue ==
    ("0" :> 0) @@ ("1" :> 1) @@ ("2" :> 2) @@ ("3" :> 3) @@ ("4" :> 4) @@
    ("5" :> 5) @@ ("6" :> 6) @@ ("7" :> 7) @@ ("8" :> 8) @@ ("9" :> 9)

\* str.isdigit(): non-empty and every character a digit.
PyIsDigit(cs) == Len(cs) > 0 /\ \A i \in 1..Len(cs) : cs[i] \in UnicodeDigits

\* int(s) succeeds on a string of digit characters only if all are decimal digits.
PyIntRaises(cs) == \E i \in 1..Len(cs) : cs[i] \notin AsciiDigits

RECURSIVE PyInt(_)
\* int(s) for a string of ASCII digits.
PyInt(cs) ==
    IF Len(cs) = 0 THEN 0
    ELSE 10 * PyInt(SubSeq(cs, 1, Len(cs) - 1)) + DigitValue[cs[Len(cs)]]

RECURSIVE RStrip(_, _)
\* str.rstrip(c): drop every trailing occurrence of the character c.
RStrip(cs, c) ==
    IF Len(cs) > 0 /\ cs[Len(cs)] = c THEN RStrip(SubSeq(cs, 1, Len(cs) - 1), c) ELSE cs

\* str.strip() of the one-token outputs of `systemctl is-active`.
PyStrip(s) ==
    CASE s = "active\n" -> "active"
      [] s = "inactive\n" -> "inactive"
      [] s = "failed\n" -> "failed"
      [] s = "\n" -> ""
      [] OTHER -> s

(***************************************************************************)
(* Metric Normalizer: _format_bytes and _calculate_uptime                  *)
(***************************************************************************)

\* 1024.0, the step between two units.
Base == 1024

\* A Python int >= 0 too large for one machine word is held as its digits in
\* base 1024, least significant first (limbs); <<>> is 0.  bytes_val inside the
\* loop of _format_bytes is whole + frac: whole the limbs of its integer part,
\* frac the base-1024 digits after the point, most significant first.  Below
\* 2^53 the float the code holds is exactly this number.
RECURSIVE PyIntLimbs(_)
PyIntLimbs(n) == IF n = 0 THEN <<>> ELSE <<n % Base>> \o PyIntLimbs(n \div Base)

RECURSIVE LimbsValue(_)
LimbsValue(limbs) ==
    IF limbs = <<>> THEN 0 ELSE Head(limbs) + Base * LimbsValue(Tail(limbs))

IsZero(limbs) == \A i \in 1..Len(limbs) : limbs[i] = 0

RECURSIVE TimesTen(_)
\* 10 * frac: the digit that moves before the point, and the digits left after it.
TimesTen(frac) ==
    IF frac = <<>> THEN [carry |-> 0, frac |-> <<>>]
    ELSE LET low == TimesTen(Tail(frac))
             t == 10 * Head(frac) + low.carry
         IN [carry |-> t \div Base, frac |-> <<t % Base>> \o low.frac]

\* f"{bytes_val:.1f}": the tenths in bytes_val, the nearest, on a tie the even one.
OneDecimal(whole, frac) ==
    LET shifted == TimesTen(frac)
        t == 10 * LimbsValue(whole) + shifted.carry
        rest == shifted.frac
        half == Base \div 2
        above == rest # <<>> /\ (rest[1] > half \/ (rest[1] = half /\ ~IsZero(Tail(rest))))
        tie == rest # <<>> /\ rest[1] = half /\ IsZero(Tail(rest))
    IN IF above \/ (tie /\ t % 2 = 1) THEN t + 1 ELSE t

\* The units without GB.
ByteUnitsNoGB == <<"B", "KB", "MB">>

ByteUnits == <<"B", "KB", "MB", "GB">>

RECURSIVE FormatBytesLoop(_, _, _)
\* The loop of _format_bytes at unit i.
FormatBytesLoop(whole, frac, i) ==
    IF i > Len(ByteUnits)
    THEN [fmt |-> "bytes", tenths |-> OneDecimal(whole, frac), unit |-> "TB"]
    ELSE IF IsZero(Tail(whole \o <<0>>))
         THEN [fmt |-> "bytes", tenths |-> OneDecimal(whole, frac), unit |-> ByteUnits[i]]
         ELSE FormatBytesLoop(Tail(whole), <<Head(whole)>> \o frac, i + 1)

\* _format_bytes(bytes_val), bytes_val an int >= 0 given by its limbs: the str
\* "<tenths / 10>.<tenths % 10><unit>".
format_bytes(limbs) == FormatBytesLoop(limbs, <<>>, 1)

\* _format_bytes(bytes_val) for an int of one machine word; a negative one is
\* below 1024.0 at once.
FormatBytes(bytes_val) ==
    IF bytes_val < 0
    THEN [fmt |-> "bytes", tenths |-> 10 * bytes_val, unit |-> "B"]
    ELSE format_bytes(PyIntLimbs(bytes_val))

\* Activation timestamps as `systemctl show` prints them, e.g.
\* "Mon 2024-01-15 10:30:00 UTC": kind "stamp" holds a text in which the regular
\* expression finds YYYY-MM-DD HH:MM:SS; at is the time it denotes, in seconds,
\* and valid is false when the digits are no date (strptime raises ValueError).
Stamp(at, valid) == [kind |-> "stamp", at |-> at, valid |-> valid]
EmptyStamp == [kind |-> "empty"]
NaStamp == [kind |-> "n/a"]
NoPatternStamp == [kind |-> "nopattern"]

\* A division that rounds up.
FloorDivUp(x, d) == (x + d - 1) \div d

\* int(x // d) for an elapsed time x >= 0, and Python's floor division for x < 0.
FloorDiv(x, d) == x \div d

\* _calculate_uptime(timestamp_str), now being datetime.now() in seconds.
CalculateUptime(timestamp_str, now) ==
    IF timestamp_str.kind \in {"empty", "n/a"} THEN NA
    ELSE IF timestamp_str.kind = "nopattern" THEN NA
    ELSE IF ~timestamp_str.valid THEN NA
    ELSE LET uptime_seconds == now - timestamp_str.at IN
         IF uptime_seconds < 60
         THEN [fmt |-> "uptime", s |-> uptime_seconds]
         ELSE IF uptime_seconds < 3600
         THEN [fmt |-> "uptime", m |-> FloorDiv(uptime_seconds, 60)]
         ELSE IF uptime_seconds < 86400
         THEN [fmt |-> "uptime", h |-> FloorDiv(uptime_seconds, 3600),
               m |-> FloorDiv(uptime_seconds % 3600, 60)]
         ELSE [fmt |-> "uptime", d |-> FloorDiv(uptime_seconds, 86400),
               h |-> FloorDiv(uptime_seconds % 86400, 3600)]

(***************************************************************************)
(* subprocess.run: what a command did.                                     *)
(***************************************************************************)

Completed(returncode, stdout, stderr) ==
    [kind |-> "completed", returncode |-> returncode, stdout |-> stdout, stderr |-> stderr]

\* subprocess.TimeoutExpired
TimedOut == [kind |-> "timeout"]

\* FileNotFoundError: the command is not installed.
NotFound == [kind |-> "notfound"]

\* Another exception of subprocess.run, e.g. PermissionError.
OtherError == [kind |-> "oserror"]

(***************************************************************************)
(* Unit Status Collector                                                   *)
(***************************************************************************)

NotSet == <<"[", "n", "o", "t", " ", "s", "e", "t", "]">>

\* One line of `systemctl show` output; split("=", 1) gives key and value.
ShowLine(key, value) == [eq |-> TRUE, key |-> key, value |-> value]

\* A line without "=".
PlainLine == [eq |-> FALSE]

Raised(e) == [raised |-> TRUE, e |-> e]

\* The body of the loop over the lines of `systemctl show` (the if/elif chain).
ApplyShowLine(service_info, line, now) ==
    IF ~line.eq THEN service_info
    ELSE IF line.key = "MemoryCurrent" /\ line.value # NotSet /\ PyIsDigit(line.value)
    THEN IF PyIntRaises(line.value) THEN Raised("ValueError")
         ELSE LET memory_bytes == PyInt(line.value) IN
              IF memory_bytes > 0
              THEN [service_info EXCEPT !.memory = FormatBytes(memory_bytes)]
              ELSE service_info
    ELSE IF line.key = "MainPID" /\ line.value # <<"0">>
    THEN [service_info EXCEPT !.main_pid = Chars(line.value)]
    ELSE IF line.key = "ActiveEnterTimestamp" /\ line.value.kind # "empty"
    THEN [service_info EXCEPT !.uptime = CalculateUptime(line.value, now)]
    ELSE IF line.key = "LoadState"
    THEN [service_info EXCEPT !.load_state = Lit(line.value)]
    ELSE IF line.key = "UnitFileState"
    THEN [service_info EXCEPT !.unit_file_state = Lit(line.value)]
    ELSE service_info

RECURSIVE ParseShow(_, _, _, _)
\* for line in show_result.stdout.strip().split("\n"), from line i on.
ParseShow(service_info, lines, i, now) ==
    IF i > Len(lines) THEN service_info
    ELSE LET next == ApplyShowLine(service_info, lines[i], now) IN
         IF "raised" \in DOMAIN next THEN next
         ELSE ParseShow(next, lines, i + 1, now)

\* The record of the except branches: TimeoutExpired, or any other exception e.
DegradedStatus(service_name, status, state) ==
    [name |-> service_name, status |-> status, active |-> FALSE, state |-> Lit(state),
     memory |-> NA, uptime |-> NA, main_pid |-> NA, load_state |-> NA,
     unit_file_state |-> NA]

TimeoutStatus(service_name) == DegradedStatus(service_name, Lit("Timeout"), "unknown")

ErrorStatus(service_name, e) ==
    DegradedStatus(service_name, [fmt |-> "error", e |-> e], "error")

\* A handler that keeps what the sub-queries that completed returned, the rest N/A.
OnQueryFailureKeepPartial(service_name, runs) ==
    IF Len(runs) = 1 THEN TimeoutStatus(service_name)
    ELSE [name |-> service_name,
          status |-> Lit(runs[1].stdout),
          active |-> IF Len(runs) > 2 THEN PyStrip(runs[2].stdout) = "active" ELSE FALSE,
          state |-> IF Len(runs) > 2 THEN Lit(PyStrip(runs[2].stdout)) ELSE Lit("unknown"),
          memory |-> NA, uptime |-> NA, main_pid |-> NA, load_state |-> NA,
          unit_file_state |-> NA]

\* What get_service_status returns when its last sub-query raised.
OnQueryFailure(service_name, runs) ==
    IF runs[Len(runs)].kind = "timeout"
    THEN TimeoutStatus(service_name)
    ELSE ErrorStatus(service_name, runs[Len(runs)].kind)

\* get_service_status(service_name).  runs are the outcomes of the sub-queries
\* made, in order: systemctl status, is-active, show; a sub-query is made only
\* if the ones before it completed, so all but the last of runs completed.
get_service_status(service_name, runs, now) ==
    IF runs[Len(runs)].kind # "completed"
    THEN OnQueryFailure(service_name, runs)
    ELSE LET result == runs[1]
             is_active == runs[2]
             show_result == runs[3]
             service_info ==
                 [name |-> service_name,
                  status |-> Lit(result.stdout),
                  active |-> PyStrip(is_active.stdout) = "active",
                  state |-> Lit(PyStrip(is_active.stdout)),
                  memory |-> NA, uptime |-> NA, main_pid |-> NA,
                  load_state |-> NA, unit_file_state |-> NA]
             parsed == IF show_result.returncode = 0
                       THEN ParseShow(service_info, show_result.stdout, 1, now)
                       ELSE service_info
         IN IF "raised" \in DOMAIN parsed
            THEN ErrorStatus(service_name, parsed.e)
            ELSE parsed

(***************************************************************************)
(* Control Executor                                                        *)
(***************************************************************************)

SudoSystemctl(action, service_name) == <<"sudo", "systemctl", action, service_name>>

\* The result of control_service for one answer of the command.
ControlResult(run) ==
    IF run.kind = "completed"
    THEN [success |-> run.returncode = 0,
          message |-> [fmt |-> "concat", a |-> run.stdout, b |-> run.stderr]]
    ELSE IF run.kind = "timeout"
    THEN [success |-> FALSE, message |-> Lit("Operation timed out")]
    ELSE [success |-> FALSE, message |-> [fmt |-> "error", e |-> run.kind]]

\* control_service that runs the command again after a failure or a timeout.
control_service_retry(service_name, action, run) ==
    [value |-> ControlResult(run),
     invoked |-> IF run.kind = "completed" /\ run.returncode = 0
                 THEN <<SudoSystemctl(action, service_name)>>
                 ELSE <<SudoSystemctl(action, service_name),
                        SudoSystemctl(action, service_name)>>]

\* control_service(service_name, action): one subprocess.run of the privileged
\* command, answered by run; invoked lists the commands it started.
control_service(service_name, action, run) ==
    [value |-> ControlResult(run),
     invoked |-> <<SudoSystemctl(action, service_name)>>]

(***************************************************************************)
(* Log Reader                                                              *)
(***************************************************************************)

\* The lines journalctl -o json prints: a JSON record, a line that is no JSON,
\* or a line of white space only.
JsonLine(id) == [kind |-> "json", id |-> id]
TextLine == [kind |-> "text"]
BlankLine == [kind |-> "blank"]

\* json.loads(line) of a JSON line: the dict it denotes.
JsonLoads(line) == [fmt |-> "dict", MESSAGE |-> line.id]

RECURSIVE DropLeadingBlank(_)
DropLeadingBlank(lines) ==
    IF Len(lines) > 0 /\ lines[1].kind = "blank" THEN DropLeadingBlank(Tail(lines))
    ELSE lines

RECURSIVE DropTrailingBlank(_)
DropTrailingBlank(lines) ==
    IF Len(lines) > 0 /\ lines[Len(lines)].kind = "blank"
    THEN DropTrailingBlank(SubSeq(lines, 1, Len(lines) - 1))
    ELSE lines

\* stdout.strip().split("\n"): leading and trailing white space goes, and what
\* is left is cut at the newlines; an empty rest gives one empty line.
StripSplitLines(lines) ==
    LET rest == DropTrailingBlank(DropLeadingBlank(lines)) IN
    IF rest = <<>> THEN <<BlankLine>> ELSE rest

RECURSIVE ParseLogLinesAbort(_, _, _)
\* The loop with a JSONDecodeError that is not caught per line.
ParseLogLinesAbort(lines, i, json_logs) ==
    IF i > Len(lines) THEN [fmt |-> "list", items |-> json_logs]
    ELSE IF lines[i].kind = "blank" THEN ParseLogLinesAbort(lines, i + 1, json_logs)
    ELSE IF lines[i].kind = "json"
    THEN ParseLogLinesAbort(lines, i + 1, Append(json_logs, JsonLoads(lines[i])))
    ELSE [fmt |-> "error", e |-> "JSONDecodeError"]

RECURSIVE ParseLogLines(_, _, _)
\* for line in ...: if line.strip(): try json_logs.append(json.loads(line))
\* except JSONDecodeError: continue -- from line i on.
ParseLogLines(lines, i, json_logs) ==
    IF i > Len(lines) THEN [fmt |-> "list", items |-> json_logs]
    ELSE IF lines[i].kind = "blank" THEN ParseLogLines(lines, i + 1, json_logs)
    ELSE IF lines[i].kind = "json"
    THEN ParseLogLines(lines, i + 1, Append(json_logs, JsonLoads(lines[i])))
    ELSE ParseLogLines(lines, i + 1, json_logs)

\* The body shared by get_service_logs and get_full_journal; generic is the
\* message used when journalctl fails without error text.
ReadJournal(run, generic) ==
    IF run.kind # "completed"
    THEN [fmt |-> "error", prefix |-> generic, e |-> run.kind]
    ELSE IF run.returncode # 0
    THEN IF run.stderr # "" THEN Lit(run.stderr) ELSE Lit(generic)
    ELSE ParseLogLines(StripSplitLines(run.stdout), 1, <<>>)

\* get_service_logs(service_name, lines): journalctl -u service_name -n lines.
get_service_logs(service_name, lines, run) == ReadJournal(run, "Error getting logs")

\* get_full_journal(service_name): journalctl -u service_name.
get_full_journal(service_name, run) == ReadJournal(run, "Error getting journal")

(***************************************************************************)
(* Disk Usage Surveyor                                                     *)
(***************************************************************************)

\* use_percent_num: int(use_percent) if use_percent.isdigit() else 0, and 0
\* when int raises ValueError.
UsePercentNum(use_percent) ==
    IF PyIsDigit(use_percent)
    THEN IF PyIntRaises(use_percent) THEN 0 ELSE PyInt(use_percent)
    ELSE 0

\* The dict with use_percent left as df printed it.
DiskEntryKeepSign(parts) ==
    [filesystem |-> Lit(parts[1]), size |-> Lit(parts[2]), used |-> Lit(parts[3]),
     available |-> Lit(parts[4]), use_percent |-> Chars(parts[5]),
     use_percent_num |-> UsePercentNum(RStrip(parts[5], "%")),
     mounted_on |-> [fmt |-> "join", parts |-> SubSeq(parts, 6, Len(parts))]]

\* The dict appended for a df line of at least 6 columns.
DiskEntry(parts) ==
    LET use_percent == RStrip(parts[5], "%") IN
    [filesystem |-> Lit(parts[1]), size |-> Lit(parts[2]), used |-> Lit(parts[3]),
     available |-> Lit(parts[4]), use_percent |-> Chars(use_percent),
     use_percent_num |-> UsePercentNum(use_percent),
     mounted_on |-> [fmt |-> "join", parts |-> SubSeq(parts, 6, Len(parts))]]

RECURSIVE DiskRows(_, _)
\* for line in lines[1:]: parts = line.split(); if len(parts) >= 6: append.
DiskRows(lines, i) ==
    IF i > Len(lines) THEN <<>>
    ELSE IF Len(lines[i]) >= 6
         THEN <<DiskEntry(lines[i])>> \o DiskRows(lines, i + 1)
         ELSE DiskRows(lines, i + 1)

\* Whether entry a goes before entry b in a list sorted on use_percent_num.
GoesBefore(a, b, reverse) ==
    IF reverse THEN a.use_percent_num > b.use_percent_num
    ELSE a.use_percent_num < b.use_percent_num

RECURSIVE InsertSorted(_, _, _)
\* Insert e into the sorted seq, after the entries of equal key.
InsertSorted(seq, e, reverse) ==
    IF seq = <<>> THEN <<e>>
    ELSE IF GoesBefore(e, Head(seq), reverse) THEN <<e>> \o seq
    ELSE <<Head(seq)>> \o InsertSorted(Tail(seq), e, reverse)

RECURSIVE SortByPercent(_, _)
\* list.sort(key=use_percent_num, reverse=reverse): a stable sort, entries of
\* equal key keep the order they had.
SortByPercent(seq, reverse) ==
    IF seq = <<>> THEN <<>>
    ELSE InsertSorted(SortByPercent(SubSeq(seq, 1, Len(seq) - 1), reverse),
                      seq[Len(seq)], reverse)

\* The sort without reverse=True.
SortDisksAscending(disk_usage) == SortByPercent(disk_usage, FALSE)

\* disk_usage.sort(key=lambda x: x["use_percent_num"], reverse=True)
SortDisks(disk_usage) == SortByPercent(disk_usage, TRUE)

\* get_disk_usage(): run is the answer of `df -h`, its stdout given as the
\* lines of stdout.strip().split("\n"), each line as line.split().
get_disk_usage(run) ==
    IF run.kind = "timeout" THEN [error |-> Lit("Disk usage check timed out")]
    ELSE IF run.kind # "completed"
    THEN [error |-> [fmt |-> "error", prefix |-> "Error getting disk usage", e |-> run.kind]]
    ELSE IF run.returncode # 0 THEN [error |-> Lit("Failed to get disk usage")]
    ELSE IF Len(run.stdout) < 2 THEN [error |-> Lit("Invalid df output")]
    ELSE [disks |-> SortDisks(DiskRows(run.stdout, 2))]

(***************************************************************************)
(* RAM Usage Surveyor                                                      *)
(***************************************************************************)

\* A column of `free -h`: the text "<tenths / 10>.<tenths % 10><suffix>" when
\* numeric, some text that is no number before the suffix otherwise.
MemText(numeric, tenths, suffix) ==
    [fmt |-> "mem", numeric |-> numeric, tenths |-> tenths, suffix |-> suffix]

\* The power of 1024 _parse_memory_value scales by, the result being in K.
SuffixExp == ("T" :> 3) @@ ("G" :> 2) @@ ("M" :> 1) @@ ("K" :> 0) @@ ("" :> -1)

\* _parse_memory_value(value): the float tenths / 10 * 1024 ^ exp, or the
\* ValueError of float() (a text that is no number, or a suffix other than
\* T, G, M, K, which lands in the last branch with the suffix still on).
ParseMemoryValue(value) ==
    IF value.suffix \in DOMAIN SuffixExp /\ value.numeric
    THEN [raises |-> FALSE, tenths |-> value.tenths, exp |-> SuffixExp[value.suffix]]
    ELSE [raises |-> TRUE]

RECURSIVE Pow1024(_)
Pow1024(k) == IF k = 0 THEN 1 ELSE 1024 * Pow1024(k - 1)

Abs(x) == IF x < 0 THEN -x ELSE x

RECURSIVE Gcd(_, _)
Gcd(a, b) == IF b = 0 THEN a ELSE Gcd(b, a % b)

RECURSIVE IsPowerOfTwo(_)
IsPowerOfTwo(n) == n = 1 \/ (n > 1 /\ n % 2 = 0 /\ IsPowerOfTwo(n \div 2))

\* int((num / den) * 100) for den > 0; int truncates toward zero.  The quotient
\* is a rounded float.  It is exact when num and den are held exactly and den,
\* reduced, is a power of two, and then so is the product.  Otherwise, when
\* 100 * num / den is an integer k, the product may be just below it
\* ((29 / 100) * 100 is 28.999999999999996): k and the integer before it are
\* both possible.  A product that is no integer is truncated as the exact one.
IntPercent(num, den, held_exactly) ==
    LET k == (100 * Abs(num)) \div den
        whole == (100 * Abs(num)) % den = 0
        dyadic == held_exactly /\ IsPowerOfTwo(den \div Gcd(Abs(num), den))
        sign == IF num < 0 THEN -1 ELSE 1
    IN IF whole /\ k > 0 /\ ~dyadic THEN {sign * k, sign * (k - 1)} ELSE {sign * k}

\* float("x.y") holds x.y exactly when y is 0 or 5.
FloatExact(tenths) == tenths % 5 = 0

\* use_percent of the primary source, from the total and used columns.
PrimaryUsePercent(total, used) ==
    LET total_kb == ParseMemoryValue(total)
        used_kb == ParseMemoryValue(used)
    IN IF total_kb.raises \/ used_kb.raises THEN {0}
       ELSE IF total_kb.tenths <= 0 THEN {0}
       ELSE LET d == used_kb.exp - total_kb.exp
                exact == FloatExact(total_kb.tenths) /\ FloatExact(used_kb.tenths)
            IN IF d >= 0
               THEN IntPercent(used_kb.tenths * Pow1024(d), total_kb.tenths, exact)
               ELSE IntPercent(used_kb.tenths, total_kb.tenths * Pow1024(-d), exact)

\* One line of /proc/meminfo, "Key:   <token> kB"; split(":", 1) gives key and
\* value, value.strip().split()[0] is token.
MeminfoLine(key, token) == [colon |-> TRUE, key |-> key, token |-> token]

\* A line without ":".
NoColonLine == [colon |-> FALSE]

RECURSIVE MemData(_, _, _)
\* The loop that fills mem_data, from line i on; a later line of the same key
\* overwrites.  int() of a digit int() rejects raises ValueError.
MemData(lines, i, mem_data) ==
    IF i > Len(lines) THEN [raises |-> FALSE, mem_data |-> mem_data]
    ELSE IF lines[i].colon /\ PyIsDigit(lines[i].token)
    THEN IF PyIntRaises(lines[i].token) THEN [raises |-> TRUE]
         ELSE MemData(lines, i + 1,
                      (lines[i].key :> PyInt(lines[i].token) * 1024) @@ mem_data)
    ELSE MemData(lines, i + 1, mem_data)

\* dict.get(key, default)
Get(mem_data, key, default) == IF key \in DOMAIN mem_data THEN mem_data[key] ELSE default

Returned(values) == {[kind |-> "return", value |-> v] : v \in values}

\* available_bytes taken from MemFree even when MemAvailable is there.
AvailableBytesPreferFree(mem_data) ==
    Get(mem_data, "MemFree", Get(mem_data, "MemAvailable", 0))

\* available_bytes = mem_data.get('MemAvailable', mem_data.get('MemFree', 0))
AvailableBytes(mem_data) ==
    Get(mem_data, "MemAvailable", Get(mem_data, "MemFree", 0))

\* The /proc/meminfo tier of get_ram_usage.
RamFallback(meminfo) ==
    IF ~meminfo.readable
    THEN Returned({[error |-> [fmt |-> "error", prefix |-> "Error reading memory info",
                               e |-> "OSError"]]})
    ELSE LET parsed == MemData(meminfo.lines, 1, <<>>) IN
         IF parsed.raises
         THEN Returned({[error |-> [fmt |-> "error", prefix |-> "Error getting RAM usage",
                                    e |-> "ValueError"]]})
         ELSE IF "MemTotal" \in DOMAIN parsed.mem_data
         THEN LET total_bytes == Get(parsed.mem_data, "MemTotal", 0)
                  available_bytes == AvailableBytes(parsed.mem_data)
                  free_bytes == Get(parsed.mem_data, "MemFree", 0)
                  used_bytes == total_bytes - available_bytes
              IN Returned({[total |-> FormatBytes(total_bytes),
                            used |-> FormatBytes(used_bytes),
                            free |-> FormatBytes(free_bytes),
                            available |-> FormatBytes(available_bytes),
                            use_percent |-> p] :
                           p \in IF total_bytes > 0
                                 THEN IntPercent(used_bytes, total_bytes, TRUE)
                                 ELSE {0}})
         ELSE Returned({[error |-> Lit("Unable to determine RAM usage")]})

\* get_ram_usage(): the results it may return, or the exception it lets through.
\* run is the answer of `free -h`, its stdout given as the lines of
\* stdout.strip().split("\n"), each as line.split(); meminfo is /proc/meminfo.
get_ram_usage(run, meminfo) ==
    IF run.kind \in {"timeout", "notfound"}
    THEN RamFallback(meminfo)
    ELSE IF run.kind # "completed"
    THEN {[kind |-> "raise", e |-> run.kind]}
    ELSE IF run.returncode = 0 /\ Len(run.stdout) >= 2 /\ Len(run.stdout[2]) >= 7
    THEN LET mem_line == run.stdout[2] IN
         Returned({[total |-> mem_line[2], used |-> mem_line[3], free |-> mem_line[4],
                    available |-> mem_line[7], use_percent |-> p] :
                   p \in PrimaryUsePercent(mem_line[2], mem_line[3])})
    ELSE RamFallback(meminfo)

(***************************************************************************)
(* get_all_toggle_states                                                   *)
(***************************************************************************)

\* get_all_toggle_states(): {service_name: {toggle_type: bool(is_expanded)}}.
get_all_toggle_states(table) ==
    LET rows == BagToSet(table) IN
    [s \in {r.service_name : r \in rows} |->
        [t \in {r.toggle_type : r \in {x \in rows : x.service_name = s}} |->
            (CHOOSE r \in RowsOf(table, s, t) : TRUE).is_expanded # 0]]

(***************************************************************************)
(* DashboardRequestHandler.  A path is the sequence of its segments:       *)
(* "/api/services/nginx/logs" is <<"api", "services", "nginx", "logs">>,   *)
(* so path.split("/")[3] is the third segment.  base_url is the default.   *)
(* A handler yields the set of its possible outcomes: the response sent or *)
(* the exception that escaped it, the tables after it, the commands run.   *)
(***************************************************************************)

\* _send_json_response(data, status)
JsonResponse(status, data) ==
    [kind |-> "response", status |-> status, content_type |-> "application/json",
     body |-> data]

\* _send_error(code, message)
SendError(code, message) == JsonResponse(code, [error |-> Lit(message)])

\* An exception no handler catches: BaseHTTPRequestHandler sends no response.
Escaped(e) == [kind |-> "exception", e |-> e]

Outcome(resp, tracked, toggles, cmds) ==
    [response |-> resp, tracked |-> tracked, toggles |-> toggles, invoked |-> cmds]

StartsWithServices(path) == Len(path) >= 3 /\ path[1] = "api" /\ path[2] = "services"

EndsWith(path, segment) == Len(path) >= 1 /\ path[Len(path)] = segment

RECURSIVE StatusUntilFailure(_, _, _, _)
\* The statuses of services from position i on, up to the first degraded one.
StatusUntilFailure(services, runs, now, i) ==
    IF i > Len(services) THEN <<>>
    ELSE LET status == get_service_status(services[i], runs[services[i]], now) IN
         IF status.state \in {Lit("unknown"), Lit("error")} THEN <<status>>
         ELSE <<status>> \o StatusUntilFailure(services, runs, now, i + 1)

\* A handler that stops asking at the first service whose query failed.
HandleGetServicesStopOnFailure(tracked, runs, now) ==
    JsonResponse(200, StatusUntilFailure(get_tracked_services(tracked), runs, now, 1))

\* _handle_get_services: one get_service_status per tracked service, in the
\* order of get_tracked_services; runs[s] is what systemctl answers for s.
HandleGetServices(tracked, runs, now) ==
    LET services == get_tracked_services(tracked) IN
    JsonResponse(200, [i \in 1..Len(services) |->
                          get_service_status(services[i], runs[services[i]], now)])

\* do_GET
do_GET(req, tracked, toggles) ==
    LET same(resp) == {Outcome(resp, tracked, toggles, <<>>)} IN
    IF req.path = <<>>
    THEN IF req.template
         THEN same([kind |-> "response", status |-> 200, content_type |-> "text/html",
                    body |-> Lit("index.html")])
         ELSE same(SendError(404, "Template not found"))
    ELSE IF req.path = <<"api", "services">>
    THEN same(HandleGetServices(tracked, req.status_runs, req.now))
    ELSE IF StartsWithServices(req.path) /\ EndsWith(req.path, "logs")
    THEN LET text == IF req.lines = <<>> THEN <<"5", "0">> ELSE req.lines IN
         IF PyIntRaises(text) THEN same(Escaped("ValueError"))
         ELSE same(JsonResponse(200,
                [logs |-> get_service_logs(req.path[3], PyInt(text), req.run)]))
    ELSE IF StartsWithServices(req.path) /\ EndsWith(req.path, "journal")
    THEN same(JsonResponse(200, [journal |-> get_full_journal(req.path[3], req.run)]))
    ELSE IF req.path = <<"api", "toggle-states">>
    THEN same(JsonResponse(200, get_all_toggle_states(toggles)))
    ELSE IF req.path = <<"api", "disk-usage">>
    THEN same(JsonResponse(200, get_disk_usage(req.run)))
    ELSE IF req.path = <<"api", "ram-usage">>
    THEN {Outcome(IF r.kind = "raise" THEN Escaped(r.e) ELSE JsonResponse(200, r.value),
                  tracked, toggles, <<>>) :
             r \in get_ram_usage(req.run, req.meminfo)}
    ELSE same(SendError(404, "Not Found"))

\* A request body: no bytes, bytes that are no JSON, a JSON object with the
\* fields given, or JSON that is no object (a list, null, a number, a string).
EmptyBody == [json |-> "empty"]
InvalidJson == [json |-> "invalid"]
NotAnObject == [json |-> "other"]
JsonObject(fields) == [json |-> "object", fields |-> fields]

\* data = json.loads(post_data) if post_data else {}
BodyFields(body) == IF body.json = "object" THEN body.fields ELSE <<>>

Has(data, key) == key \in DOMAIN data

\* _handle_control_service(service_name, data)
HandleControlService(service_name, body, run, tracked, toggles) ==
    IF body.json = "other"
    THEN {Outcome(Escaped("AttributeError"), tracked, toggles, <<>>)}
    ELSE LET data == BodyFields(body) IN
         IF ~Has(data, "action") \/ data.action \notin {"start", "stop", "restart"}
         THEN {Outcome(SendError(400, "Invalid action"), tracked, toggles, <<>>)}
         ELSE LET r == control_service(service_name, data.action, run) IN
              {Outcome(JsonResponse(200, r.value), tracked, toggles, r.invoked)}

\* _handle_add_service(data)
HandleAddService(body, tracked, toggles) ==
    IF body.json = "other"
    THEN {Outcome(Escaped("AttributeError"), tracked, toggles, <<>>)}
    ELSE LET data == BodyFields(body) IN
         IF ~Has(data, "service_name") \/ data.service_name = ""
         THEN {Outcome(SendError(400, "Service name required"), tracked, toggles, <<>>)}
         ELSE LET r == add_service(tracked, data.service_name) IN
              IF r.value
              THEN {Outcome(JsonResponse(200, [success |-> TRUE,
                                               message |-> [fmt |-> "added",
                                                            name |-> data.service_name]]),
                            r.table, toggles, <<>>)}
              ELSE {Outcome(SendError(400, "Service already tracked"),
                            r.table, toggles, <<>>)}

\* _handle_remove_service_by_name(service_name)
HandleRemoveServiceByName(service_name, tracked, toggles) ==
    LET db == remove_service(Database(tracked, toggles), service_name).db IN
    {Outcome(JsonResponse(200, [success |-> TRUE,
                                message |-> [fmt |-> "stopped", name |-> service_name]]),
             db.tracked_services, db.service_toggles, <<>>)}

\* _handle_remove_service(data)
HandleRemoveService(body, tracked, toggles) ==
    IF body.json = "other"
    THEN {Outcome(Escaped("AttributeError"), tracked, toggles, <<>>)}
    ELSE LET data == BodyFields(body) IN
         IF ~Has(data, "service_name") \/ data.service_name = ""
         THEN {Outcome(SendError(400, "Service name required"), tracked, toggles, <<>>)}
         ELSE HandleRemoveServiceByName(data.service_name, tracked, toggles)

\* _handle_set_toggle_state(service_name, data)
HandleSetToggleState(service_name, body, tracked, toggles) ==
    IF body.json = "other"
    THEN {Outcome(Escaped("AttributeError"), tracked, toggles, <<>>)}
    ELSE LET data == BodyFields(body)
             toggle_type == IF Has(data, "toggle_type") THEN data.toggle_type ELSE "logs"
             is_expanded == IF Has(data, "is_expanded") THEN data.is_expanded ELSE FALSE
             db == set_toggle_state(Database(tracked, toggles), service_name,
                                    toggle_type, is_expanded).db
         IN {Outcome(JsonResponse(200, [success |-> TRUE]), db.tracked_services,
                     db.service_toggles, <<>>)}

\* do_POST
do_POST(req, tracked, toggles) ==
    IF req.body.json = "invalid"
    THEN {Outcome(SendError(400, "Invalid JSON"), tracked, toggles, <<>>)}
    ELSE IF req.path = <<"api", "services">>
    THEN HandleAddService(req.body, tracked, toggles)
    ELSE IF req.path = <<"api", "services", "remove">>
    THEN HandleRemoveService(req.body, tracked, toggles)
    ELSE IF StartsWithServices(req.path) /\ EndsWith(req.path, "control")
    THEN HandleControlService(req.path[3], req.body, req.run, tracked, toggles)
    ELSE IF StartsWithServices(req.path) /\ EndsWith(req.path, "toggle")
    THEN HandleSetToggleState(req.path[3], req.body, tracked, toggles)
    ELSE {Outcome(SendError(404, "Not Found"), tracked, toggles, <<>>)}

\* do_DELETE: len(path.split("/")) == 4 is a path of three segments.
do_DELETE(req, tracked, toggles) ==
    IF StartsWithServices(req.path) /\ Len(req.path) = 3
    THEN HandleRemoveServiceByName(req.path[3], tracked, toggles)
    ELSE {Outcome(SendError(404, "Not Found"), tracked, toggles, <<>>)}

(***************************************************************************)
(* Initial state: the tables as init_db creates them, nothing called yet.  *)
(***************************************************************************)

NoCall == [op |-> "none"]

Init ==
    /\ tracked_services = EmptyBag
    /\ service_toggles = EmptyBag
    /\ lastWrite = [p \in Pairs |-> {}]
    /\ call = NoCall
    /\ ret = NoCall
    /\ request = NoCall
    /\ response = NoCall
    /\ invoked = <<>>

(***************************************************************************)
(* The engine's store operations, called directly.                         *)
(***************************************************************************)

GetTrackedServices ==
    /\ call' = [op |-> "get_tracked_services"]
    /\ ret' = [op |-> "get_tracked_services", kind |-> "return",
               value |-> get_tracked_services(tracked_services)]
    /\ invoked' = <<>>
    /\ UNCHANGED <<storeVars, httpVars>>

AddService ==
    \E n \in Names :
        LET r == add_service(tracked_services, n) IN
        /\ tracked_services' = r.table
        /\ call' = [op |-> "add_service", service_name |-> n,
                    before |-> tracked_services]
        /\ ret' = [op |-> "add_service", kind |-> "return", value |-> r.value]
        /\ invoked' = <<>>
        /\ UNCHANGED <<service_toggles, lastWrite, httpVars>>

RemoveService ==
    \E n \in Names :
        LET r == remove_service(Database(tracked_services, service_toggles), n) IN
        /\ tracked_services' = r.db.tracked_services
        /\ service_toggles' = r.db.service_toggles
        /\ call' = [op |-> "remove_service", service_name |-> n,
                    before |-> tracked_services]
        /\ ret' = [op |-> "remove_service", kind |-> "return", value |-> r.value]
        /\ invoked' = <<>>
        /\ UNCHANGED <<lastWrite, httpVars>>

SetToggleState ==
    \E n \in Names, t \in ToggleTypes, v \in BOOLEAN :
        LET r == set_toggle_state(Database(tracked_services, service_toggles), n, t, v) IN
        /\ tracked_services' = r.db.tracked_services
        /\ service_toggles' = r.db.service_toggles
        /\ lastWrite' = [lastWrite EXCEPT ![<<n, t>>] = {v}]
        /\ call' = [op |-> "set_toggle_state", service_name |-> n,
                    toggle_type |-> t, is_expanded |-> v]
        /\ ret' = [op |-> "set_toggle_state", kind |-> "return", value |-> r.value]
        /\ invoked' = <<>>
        /\ UNCHANGED httpVars

GetToggleState ==
    \E n \in Names, t \in ToggleTypes :
        \E x \in get_toggle_state(service_toggles, n, t) :
            /\ call' = [op |-> "get_toggle_state", service_name |-> n, toggle_type |-> t]
            /\ ret' = [op |-> "get_toggle_state", kind |-> "return", value |-> x]
            /\ invoked' = <<>>
            /\ UNCHANGED <<storeVars, httpVars>>

GetAllToggleStates ==
    /\ call' = [op |-> "get_all_toggle_states"]
    /\ ret' = [op |-> "get_all_toggle_states", kind |-> "return",
               value |-> get_all_toggle_states(service_toggles)]
    /\ invoked' = <<>>
    /\ UNCHANGED <<storeVars, httpVars>>

Next ==
    \/ GetTrackedServices
    \/ AddService
    \/ RemoveService
    \/ SetToggleState
    \/ GetToggleState
    \/ GetAllToggleStates

Spec == Init /\ [][Next]_vars

(***************************************************************************)
(* The Unit Status Collector, called directly with every answer of         *)
(* systemctl in the sets below.                                            *)
(***************************************************************************)

Failures == {TimedOut, NotFound, OtherError}

StatusCompleted ==
    {Completed(rc, "nginx.service - web server\n   Active: ...", "") : rc \in {0, 3}}

IsActiveCompleted ==
    {Completed(0, "active\n", ""), Completed(3, "inactive\n", ""),
     Completed(3, "failed\n", "")}

Nows == {1000000}

ElapsedSeconds == {45, 3725}

Timestamps ==
    {EmptyStamp, NaStamp, Stamp(0, FALSE)}
        \cup {Stamp(now - e, TRUE) : now \in Nows, e \in ElapsedSeconds}

MemoryValues == {NotSet, <<"0">>, <<"1", "5", "3", "6">>, <<"sup2">>}

PidValues == {<<"0">>, <<"8", "1", "2">>}

LoadStates == {"loaded", "not-found"}

ShowStdout(pid, mem, ts, load) ==
    <<ShowLine("MainPID", pid), ShowLine("MemoryCurrent", mem),
      ShowLine("CPUUsageNSec", <<"7">>), ShowLine("ActiveEnterTimestamp", ts),
      ShowLine("LoadState", load), ShowLine("UnitFileState", "enabled")>>

ShowCompleted ==
    {Completed(0, ShowStdout(pid, mem, ts, load), "") :
        pid \in PidValues, mem \in MemoryValues, ts \in Timestamps, load \in LoadStates}
    \cup {Completed(0, <<PlainLine>>, ""),
          Completed(1, <<PlainLine>>, "Failed to get properties")}

\* The sub-queries one call makes: it stops at the first that does not complete.
StatusRuns ==
    {<<f>> : f \in Failures}
    \cup {<<s, f>> : s \in StatusCompleted, f \in Failures}
    \cup {<<s, a, x>> : s \in StatusCompleted, a \in IsActiveCompleted,
                        x \in ShowCompleted \cup Failures}

\* A call whose arguments and tool answers are drawn, and that has not run yet.
Pending == [op |-> "pending"]

InitCall(calls) ==
    /\ tracked_services = EmptyBag
    /\ service_toggles = EmptyBag
    /\ lastWrite = [p \in Pairs |-> {}]
    /\ call \in calls
    /\ ret = Pending
    /\ request = NoCall
    /\ response = NoCall
    /\ invoked = <<>>

StatusCalls ==
    {[op |-> "get_service_status", service_name |-> n, runs |-> runs, now |-> now] :
        n \in Names, runs \in StatusRuns, now \in Nows}

GetServiceStatus ==
    /\ call.op = "get_service_status"
    /\ ret = Pending
    /\ ret' = [op |-> "get_service_status", kind |-> "return",
               value |-> get_service_status(call.service_name, call.runs, call.now)]
    /\ invoked' = <<>>
    /\ UNCHANGED <<call, storeVars, httpVars>>

InitStatus == InitCall(StatusCalls)

NextStatus == GetServiceStatus

SpecStatus == InitStatus /\ [][NextStatus]_vars

(***************************************************************************)
(* The Control Executor, called directly.                                  *)
(***************************************************************************)

Actions == {"start", "stop", "restart"}

ControlRuns ==
    {Completed(rc, out, err) : rc \in {0, 1, 5}, out \in {"", "ok\n"},
                               err \in {"", "Job failed.\n"}}
    \cup Failures

ControlCalls ==
    {[op |-> "control_service", service_name |-> n, action |-> a, run |-> run] :
        n \in Names, a \in Actions \cup {"reload"}, run \in ControlRuns}

ControlService ==
    /\ call.op = "control_service"
    /\ ret = Pending
    /\ LET r == control_service(call.service_name, call.action, call.run) IN
       /\ ret' = [op |-> "control_service", kind |-> "return", value |-> r.value]
       /\ invoked' = r.invoked
    /\ UNCHANGED <<call, storeVars, httpVars>>

InitControl == InitCall(ControlCalls)

NextControl == ControlService

SpecControl == InitControl /\ [][NextControl]_vars

(***************************************************************************)
(* The Log Reader, called directly.                                        *)
(***************************************************************************)

MaxLogLines == 3

LogLines == {BlankLine, TextLine, JsonLine(1), JsonLine(2)}

SeqsUpTo(S, n) == UNION {[1..k -> S] : k \in 0..n}

JournalRuns ==
    {Completed(rc, out, err) : rc \in {0, 1}, out \in SeqsUpTo(LogLines, MaxLogLines),
                               err \in {"", "No journal files were found.\n"}}
    \cup Failures

LogCalls ==
    {[op |-> "get_service_logs", service_name |-> n, lines |-> 50, run |-> run] :
        n \in Names, run \in JournalRuns}
    \cup {[op |-> "get_full_journal", service_name |-> n, run |-> run] :
            n \in Names, run \in JournalRuns}

GetServiceLogs ==
    /\ call.op = "get_service_logs"
    /\ ret = Pending
    /\ ret' = [op |-> "get_service_logs", kind |-> "return",
               value |-> get_service_logs(call.service_name, call.lines, call.run)]
    /\ invoked' = <<>>
    /\ UNCHANGED <<call, storeVars, httpVars>>

GetFullJournal ==
    /\ call.op = "get_full_journal"
    /\ ret = Pending
    /\ ret' = [op |-> "get_full_journal", kind |-> "return",
               value |-> get_full_journal(call.service_name, call.run)]
    /\ invoked' = <<>>
    /\ UNCHANGED <<call, storeVars, httpVars>>

InitLogs == InitCall(LogCalls)

NextLogs == GetServiceLogs \/ GetFullJournal

SpecLogs == InitLogs /\ [][NextLogs]_vars

(***************************************************************************)
(* The Disk Usage Surveyor, called directly.                               *)
(***************************************************************************)

MaxDfRows == 2

MaxPctLen == 2

PctAlphabet == {"1", "7", "%"}

\* The Use% column: every text over PctAlphabet up to MaxPctLen characters, the
\* "-" df prints for a pseudo file system, a digit int() rejects, "17%", "100%".
PercentColumns ==
    UNION {[1..k -> PctAlphabet] : k \in 1..MaxPctLen}
    \cup {<<"-">>, <<"-", "%">>, <<"sup2">>, <<"sup2", "%">>,
          <<"1", "7", "%">>, <<"1", "0", "0", "%">>}

DfHeader == <<"Filesystem", "Size", "Used", "Avail", <<"U", "s", "e", "%">>, "Mounted", "on">>

DfFileSystems == <<"/dev/sda", "/dev/sdb", "tmpfs", "overlay">>

\* The shapes of a row of df: six columns with any Use% column, seven when the
\* mount point has a space, or a line cut short after Use%.
DfRowShapes ==
    {[columns |-> 6, pct |-> pct] : pct \in PercentColumns}
    \cup {[columns |-> 7, pct |-> <<"7", "%">>], [columns |-> 5, pct |-> <<"7", "%">>]}

\* The line df prints for the i-th file system, split at white space.
DfLine(i, shape) ==
    LET fs == DfFileSystems[i] IN
    IF shape.columns = 6 THEN <<fs, "50G", "20G", "30G", shape.pct, "/mnt">>
    ELSE IF shape.columns = 7 THEN <<fs, "50G", "20G", "30G", shape.pct, "/media/my", "disk">>
    ELSE <<fs, "50G", "20G", "30G", shape.pct>>

\* The output of df: the header and one line per row.
DfStdout(shapes) == <<DfHeader>> \o [i \in 1..Len(shapes) |-> DfLine(i, shapes[i])]

\* df printing nothing, failing, or not running at all.
DfFailedRuns ==
    {Completed(0, <<<<>>>>, ""), Completed(1, <<<<>>>>, "df: cannot read table")}
    \cup Failures

DiskCall(run) == [op |-> "get_disk_usage", run |-> run]

GetDiskUsage ==
    /\ call.op = "get_disk_usage"
    /\ ret = Pending
    /\ ret' = [op |-> "get_disk_usage", kind |-> "return",
               value |-> get_disk_usage(call.run)]
    /\ invoked' = <<>>
    /\ UNCHANGED <<call, storeVars, httpVars>>

InitDisk ==
    \/ \E k \in 0..MaxDfRows : \E shapes \in [1..k -> DfRowShapes] :
          InitCall({DiskCall(Completed(0, DfStdout(shapes), ""))})
    \/ \E run \in DfFailedRuns : InitCall({DiskCall(run)})

NextDisk == GetDiskUsage

SpecDisk == InitDisk /\ [][NextDisk]_vars

(***************************************************************************)
(* The RAM Usage Surveyor, called directly.                                *)
(***************************************************************************)

FreeHeader ==
    <<Lit("total"), Lit("used"), Lit("free"), Lit("shared"), Lit("buff/cache"),
      Lit("available")>>

\* "8.0G", "7.7Gi" (the binary suffix of newer versions of free), "0.0M"
TotalTexts == {MemText(TRUE, 80, "G"), MemText(TRUE, 77, "Gi"), MemText(TRUE, 0, "M")}

\* "2.0G", "2.3G", "512.0M", and a text that is no number
UsedTexts ==
    {MemText(TRUE, 20, "G"), MemText(TRUE, 23, "G"), MemText(TRUE, 5120, "M"),
     MemText(FALSE, 0, "M")}

MemLine(total, used) ==
    <<Lit("Mem:"), total, used, MemText(TRUE, 10, "G"), MemText(TRUE, 1, "G"),
      MemText(TRUE, 30, "G"), MemText(TRUE, 55, "G")>>

FreeRuns ==
    {Completed(0, <<FreeHeader, MemLine(t, u)>>, "") : t \in TotalTexts, u \in UsedTexts}
    \cup {Completed(0, <<FreeHeader, SubSeq(MemLine(t, u), 1, 6)>>, "") :
            t \in {MemText(TRUE, 80, "G")}, u \in {MemText(TRUE, 20, "G")}}
    \cup {Completed(0, <<<<>>>>, ""), Completed(1, <<<<>>>>, "free: failed")}
    \cup Failures

Optional(key, tokens) == {<<>>} \cup {<<MeminfoLine(key, t)>> : t \in tokens}

\* /proc/meminfo as the kernel writes it, "Key:  <decimal> kB" per line, with
\* any of the three keys missing; or a file that cannot be read.
Meminfos ==
    {[readable |-> TRUE, lines |-> t \o f \o a \o <<NoColonLine>>] :
        t \in Optional("MemTotal", {<<"0">>, <<"8", "0", "0", "0">>}),
        f \in Optional("MemFree", {<<"1", "0", "2", "4">>}),
        a \in Optional("MemAvailable", {<<"3", "4", "4", "0">>, <<"9", "0", "0", "0">>})}
    \cup {[readable |-> FALSE]}

RamCalls ==
    {[op |-> "get_ram_usage", run |-> run, meminfo |-> m] :
        run \in FreeRuns, m \in Meminfos}

GetRamUsage ==
    /\ call.op = "get_ram_usage"
    /\ ret = Pending
    /\ \E r \in get_ram_usage(call.run, call.meminfo) :
          ret' = [op |-> "get_ram_usage"] @@ r
    /\ invoked' = <<>>
    /\ UNCHANGED <<call, storeVars, httpVars>>

InitRam == InitCall(RamCalls)

NextRam == GetRamUsage

SpecRam == InitRam /\ [][NextRam]_vars

(***************************************************************************)
(* The HTTP server: requests handled one after the other, each to its end, *)
(* on the tables the requests before it left.                              *)
(***************************************************************************)

HttpNow == CHOOSE now \in Nows : TRUE

\* What systemctl answers for one service: active and running, is-active timed
\* out, systemctl missing.
HttpStatusRuns ==
    {<<Completed(0, "nginx.service - web server\n   Active: ...", ""),
       Completed(0, "active\n", ""),
       Completed(0, ShowStdout(<<"8", "1", "2">>, <<"1", "5", "3", "6">>,
                               Stamp(HttpNow - 45, TRUE), "loaded"), "")>>,
     <<Completed(0, "nginx.service - web server\n   Active: ...", ""), TimedOut>>,
     <<NotFound>>}

HttpJournalRuns ==
    {Completed(0, <<JsonLine(1), TextLine>>, ""),
     Completed(1, <<>>, "No journal files were found.\n"),
     TimedOut, NotFound}

HttpDfRuns ==
    {Completed(0, <<DfHeader, <<"/dev/sda", "50G", "20G", "30G", <<"-">>, "/">>,
                    <<"tmpfs", "1G", "0", "1G", <<"7", "%">>, "/run">>>>, ""),
     Completed(1, <<<<>>>>, "df: cannot read table"),
     TimedOut, NotFound}

HttpFreeRuns ==
    {Completed(0, <<FreeHeader, MemLine(MemText(TRUE, 80, "G"), MemText(TRUE, 20, "G"))>>, ""),
     Completed(1, <<<<>>>>, "free: failed"),
     TimedOut, NotFound, OtherError}

HttpMeminfos ==
    {[readable |-> TRUE,
      lines |-> <<MeminfoLine("MemTotal", <<"8", "0", "0", "0">>),
                  MeminfoLine("MemAvailable", <<"3", "4", "4", "0">>), NoColonLine>>],
     [readable |-> FALSE]}

\* The value of the lines query parameter; <<>> when the query has none.
QueryLines == {<<>>, <<"5">>, <<"a", "b", "c">>}

GetRequests(tracked) ==
    {[method |-> "GET", path |-> <<>>, template |-> t] : t \in BOOLEAN}
    \cup {[method |-> "GET", path |-> <<"api", "services">>, status_runs |-> runs,
           now |-> HttpNow] : runs \in [BagToSet(tracked) -> HttpStatusRuns]}
    \cup {[method |-> "GET", path |-> <<"api", "services", n, "logs">>, lines |-> l,
           run |-> run] : n \in Names, l \in QueryLines, run \in HttpJournalRuns}
    \cup {[method |-> "GET", path |-> <<"api", "services", n, "journal">>, run |-> run] :
            n \in Names, run \in HttpJournalRuns}
    \cup {[method |-> "GET", path |-> <<"api", "toggle-states">>]}
    \cup {[method |-> "GET", path |-> <<"api", "disk-usage">>, run |-> run] :
            run \in HttpDfRuns}
    \cup {[method |-> "GET", path |-> <<"api", "ram-usage">>, run |-> run, meminfo |-> m] :
            run \in HttpFreeRuns, m \in HttpMeminfos}
    \cup {[method |-> "GET", path |-> <<"api", "metrics">>]}

NameBodies ==
    {JsonObject([service_name |-> n]) : n \in Names \cup {""}}
    \cup {JsonObject(<<>>), EmptyBody, NotAnObject, InvalidJson}

ActionBodies ==
    {JsonObject([action |-> a]) : a \in Actions \cup {"reload"}}
    \cup {JsonObject(<<>>), EmptyBody, NotAnObject, InvalidJson}

ToggleBodies ==
    {JsonObject([toggle_type |-> t, is_expanded |-> v]) : t \in ToggleTypes, v \in BOOLEAN}
    \cup {JsonObject(<<>>), NotAnObject, InvalidJson}

HttpControlRuns == {Completed(0, "", ""), Completed(1, "", "Job failed.\n"), TimedOut}

PostRequests ==
    {[method |-> "POST", path |-> <<"api", "services">>, body |-> b] : b \in NameBodies}
    \cup {[method |-> "POST", path |-> <<"api", "services", "remove">>, body |-> b] :
            b \in NameBodies}
    \cup {[method |-> "POST", path |-> <<"api", "services", n, "control">>, body |-> b,
           run |-> run] : n \in Names, b \in ActionBodies, run \in HttpControlRuns}
    \cup {[method |-> "POST", path |-> <<"api", "services", NameOrder[1], "toggle">>,
           body |-> b] : b \in ToggleBodies}
    \cup {[method |-> "POST", path |-> <<"api", "metrics">>, body |-> EmptyBody]}

DeleteRequests ==
    {[method |-> "DELETE", path |-> <<"api", "services", n>>] : n \in Names}
    \cup {[method |-> "DELETE", path |-> <<"api", "services">>]}

\* The latest toggle write of each pair, after a request that left the table new.
WrittenBy(req, new) ==
    IF new = service_toggles THEN lastWrite
    ELSE [p \in Pairs |->
            IF RowsOf(new, p[1], p[2]) = RowsOf(service_toggles, p[1], p[2])
            THEN lastWrite[p]
            ELSE {r.is_expanded # 0 : r \in RowsOf(new, p[1], p[2])}]

DoGet ==
    \E req \in GetRequests(tracked_services) :
        \E out \in do_GET(req, tracked_services, service_toggles) :
            /\ request' = req
            /\ response' = out.response
            /\ invoked' = out.invoked
            /\ UNCHANGED <<storeVars, call, ret>>

DoPost ==
    \E req \in PostRequests :
        \E out \in do_POST(req, tracked_services, service_toggles) :
            /\ request' = req
            /\ response' = out.response
            /\ tracked_services' = out.tracked
            /\ service_toggles' = out.toggles
            /\ lastWrite' = WrittenBy(req, out.toggles)
            /\ invoked' = out.invoked
            /\ UNCHANGED <<call, ret>>

DoDelete ==
    \E req \in DeleteRequests :
        \E out \in do_DELETE(req, tracked_services, service_toggles) :
            /\ request' = req
            /\ response' = out.response
            /\ tracked_services' = out.tracked
            /\ invoked' = out.invoked
            /\ UNCHANGED <<service_toggles, lastWrite, call, ret>>

NextHttp == DoGet \/ DoPost \/ DoDelete

SpecHttp == Init /\ [][NextHttp]_vars

(***************************************************************************)
(* The Resource Value Normalizer, called directly.                         *)
(***************************************************************************)

\* Digits of a byte count: 0, 1, the two that make .1f meet a tie (.25, .75),
\* and the largest.
LimbDigits == {0, 1, 256, 768, Base - 1}

\* The digit above the unit of 1024^5; below 8 the count stays under 2^53.
TopLimbs == {0, 1, 7}

\* Byte counts from 0 to just under 2^53: one limb more than there are units.
ByteCount(low, top) == low \o <<top>>

\* Seconds between the activation time and now; negative for a time ahead.
UptimeElapsed ==
    (0..130) \cup (3590..3610) \cup {3725, 7199, 7200, 86399, 86400, 90000, 172799, 172800,
                                    863999, 864000} \cup {-1, -61}

UptimeNows == {1000000, 1000007}

UptimeStamps ==
    {EmptyStamp, NaStamp, NoPatternStamp, Stamp(0, FALSE)}
        \cup {Stamp(now - e, TRUE) : now \in UptimeNows, e \in UptimeElapsed}

UptimeCalls ==
    {[op |-> "_calculate_uptime", timestamp_str |-> ts, now |-> now] :
        ts \in UptimeStamps, now \in UptimeNows}

FormatBytesCall ==
    /\ call.op = "_format_bytes"
    /\ ret = Pending
    /\ ret' = [op |-> "_format_bytes", kind |-> "return",
               value |-> format_bytes(call.bytes_val)]
    /\ invoked' = <<>>
    /\ UNCHANGED <<call, storeVars, httpVars>>

CalculateUptimeCall ==
    /\ call.op = "_calculate_uptime"
    /\ ret = Pending
    /\ ret' = [op |-> "_calculate_uptime", kind |-> "return",
               value |-> CalculateUptime(call.timestamp_str, call.now)]
    /\ invoked' = <<>>
    /\ UNCHANGED <<call, storeVars, httpVars>>

InitNormalizer ==
    \/ \E low \in [1..Len(ByteUnits) + 1 -> LimbDigits], top \in TopLimbs :
          InitCall({[op |-> "_format_bytes", bytes_val |-> ByteCount(low, top)]})
    \/ InitCall(UptimeCalls)

NextNormalizer == FormatBytesCall \/ CalculateUptimeCall

SpecNormalizer == InitNormalizer /\ [][NextNormalizer]_vars

(***************************************************************************)
(* Claims                                                                  *)
(***************************************************************************)

Count(seq, x) == Cardinality({i \in 1..Len(seq) : seq[i] = x})

\* C1: the registry behaves as a set of names: no name has two rows and
\* get_tracked_services lists each tracked name exactly once (and no other name);
\* add_service(n) returns True exactly when n was not tracked before the call and
\* leaves n tracked once; remove_service(n) of a name that is not tracked
\* returns normally and leaves the registry as it was.
C1_RegistryIsSet ==
    /\ \A n \in Names : CopiesIn(n, tracked_services) <= 1
    /\ call.op = "get_tracked_services" =>
          /\ ret.kind = "return"
          /\ \A n \in Names :
                Count(ret.value, n) = IF BagIn(n, tracked_services) THEN 1 ELSE 0
    /\ call.op = "add_service" =>
          /\ ret.kind = "return"
          /\ ret.value = ~BagIn(call.service_name, call.before)
          /\ BagToSet(tracked_services) = BagToSet(call.before) \cup {call.service_name}
          /\ CopiesIn(call.service_name, tracked_services) = 1
    /\ (call.op = "remove_service" /\ ~BagIn(call.service_name, call.before)) =>
          /\ ret.kind = "return"
          /\ tracked_services = call.before

\* C1 witness: a second add_service of a tracked name has returned False while
\* other names are tracked too.
C1_Witness ==
    /\ call.op = "add_service"
    /\ BagIn(call.service_name, call.before)
    /\ ret.value = FALSE
    /\ Cardinality(BagToSet(tracked_services)) >= 2

\* C2: every pair (service, toggle type) has at most one row, and that row holds
\* the value of the latest set_toggle_state for exactly that pair (no row if the
\* pair was never written), whatever was written to other pairs since;
\* get_toggle_state(s, t) returns a value equal to that latest write, and the
\* literal False when the pair was never written.
C2_ToggleLastWrite ==
    /\ \A p \in Pairs :
          LET rows == RowsOf(service_toggles, p[1], p[2]) IN
          /\ {r.is_expanded : r \in rows} = {SqlBool(v) : v \in lastWrite[p]}
          /\ \A r \in rows : CopiesIn(r, service_toggles) = 1
    /\ call.op = "get_toggle_state" =>
          LET written == lastWrite[<<call.service_name, call.toggle_type>>] IN
          /\ ret.kind = "return"
          /\ written = {} => ret.value = [type |-> "bool", v |-> FALSE]
          /\ \A v \in written : PyEq(ret.value, v)

\* C2 witness: (s, "logs") was written True and (s, "journal") False, and a read
\* of (s, "logs") has returned the logs value.
C2_Witness ==
    /\ call.op = "get_toggle_state"
    /\ call.toggle_type = "logs"
    /\ lastWrite[<<call.service_name, "logs">>] = {TRUE}
    /\ lastWrite[<<call.service_name, "journal">>] = {FALSE}
    /\ ret.value = [type |-> "int", v |-> 1]

\* C3: when one of the three sub-queries of get_service_status times out, the
\* record returned is the degraded one in full: status "Timeout", active false,
\* state "unknown", and memory, uptime, main_pid, load_state and unit_file_state
\* all "N/A"; nothing a completed sub-query returned is in it.
C3_TimeoutDegradesWholeRecord ==
    (/\ call.op = "get_service_status"
     /\ ret # Pending
     /\ \E i \in 1..Len(call.runs) : call.runs[i].kind = "timeout")
    => /\ ret.kind = "return"
       /\ ret.value = [name |-> call.service_name, status |-> Lit("Timeout"),
                       active |-> FALSE, state |-> Lit("unknown"),
                       memory |-> NA, uptime |-> NA, main_pid |-> NA,
                       load_state |-> NA, unit_file_state |-> NA]

\* C3 witness: status and is-active completed (the unit is active), show timed
\* out, and the record says unknown.
C3_Witness ==
    /\ call.op = "get_service_status"
    /\ ret # Pending
    /\ Len(call.runs) = 3
    /\ call.runs[2].stdout = "active\n"
    /\ call.runs[3].kind = "timeout"
    /\ ret.value.state = Lit("unknown")
    /\ ret.value.active = FALSE

Done(op) == call.op = op /\ ret # Pending

\* C5: a control_service call starts the privileged command at most once,
\* whatever the command does, and returns one result: success is true exactly
\* when the command completed with exit code 0, and a timeout gives success
\* false with the message "Operation timed out".
C5_ControlOnceOneOutcome ==
    Done("control_service") =>
        /\ Len(invoked) <= 1
        /\ \A i \in 1..Len(invoked) :
              invoked[i] = <<"sudo", "systemctl", call.action, call.service_name>>
        /\ ret.kind = "return"
        /\ ret.value.success = (call.run.kind = "completed" /\ call.run.returncode = 0)
        /\ call.run.kind = "timeout" =>
              ret.value = [success |-> FALSE, message |-> Lit("Operation timed out")]

\* C5 witness: the command timed out, was started once, and the call returned
\* the timeout result.
C5_Witness ==
    /\ Done("control_service")
    /\ call.run.kind = "timeout"
    /\ Len(invoked) = 1
    /\ ret.value.message = Lit("Operation timed out")

\* The primary source of get_ram_usage is unavailable: free timed out, is not
\* installed, exited non-zero, or printed no memory line of at least 7 columns.
PrimaryUnavailable(run) ==
    \/ run.kind \in {"timeout", "notfound"}
    \/ /\ run.kind = "completed"
       /\ \/ run.returncode # 0
          \/ Len(run.stdout) < 2
          \/ Len(run.stdout[2]) < 7

\* The decimal number of the line of meminfo for key, times 1024; none if absent.
MeminfoBytes(meminfo, key) ==
    {PyInt(meminfo.lines[i].token) * 1024 :
        i \in {j \in 1..Len(meminfo.lines) :
                  meminfo.lines[j].colon /\ meminfo.lines[j].key = key}}

OneOf(S, default) == IF S = {} THEN default ELSE CHOOSE x \in S : TRUE

\* C7: when the primary source is unavailable and /proc/meminfo has the MemTotal
\* line, get_ram_usage returns total, used, free, available and use_percent, all
\* from /proc/meminfo: available is MemAvailable, or MemFree when that is missing,
\* used is total - available, each rendered by the byte formatter.  And whatever
\* the sources say, the four texts of a result are all columns of free or all
\* formatted from /proc/meminfo.
C7_FallbackSolelyFromMeminfo ==
    Done("get_ram_usage") =>
        /\ (/\ PrimaryUnavailable(call.run)
            /\ call.meminfo.readable
            /\ MeminfoBytes(call.meminfo, "MemTotal") # {})
           => LET total == OneOf(MeminfoBytes(call.meminfo, "MemTotal"), 0)
                  mfree == OneOf(MeminfoBytes(call.meminfo, "MemFree"), 0)
                  available == OneOf(MeminfoBytes(call.meminfo, "MemAvailable"), mfree)
              IN /\ ret.kind = "return"
                 /\ DOMAIN ret.value = {"total", "used", "free", "available", "use_percent"}
                 /\ ret.value.total = FormatBytes(total)
                 /\ ret.value.used = FormatBytes(total - available)
                 /\ ret.value.free = FormatBytes(mfree)
                 /\ ret.value.available = FormatBytes(available)
                 /\ ret.value.use_percent \in Int
                 /\ total = 0 => ret.value.use_percent = 0
                 /\ total > 0 =>
                       LET used == total - available
                           p == ret.value.use_percent
                       IN /\ used >= 0 => p >= 0
                          /\ used <= 0 => p <= 0
                          /\ Abs(p) * total <= 100 * Abs(used)
                          /\ 100 * Abs(used) < (Abs(p) + 2) * total
        /\ (ret.kind = "return" /\ "total" \in DOMAIN ret.value)
           => LET texts == {ret.value.total, ret.value.used, ret.value.free,
                            ret.value.available}
              IN \/ /\ ~PrimaryUnavailable(call.run)
                    /\ ret.value.total = call.run.stdout[2][2]
                    /\ ret.value.used = call.run.stdout[2][3]
                    /\ ret.value.free = call.run.stdout[2][4]
                    /\ ret.value.available = call.run.stdout[2][7]
                 \/ /\ PrimaryUnavailable(call.run)
                    /\ \A t \in texts : t.fmt = "bytes"

\* C7 witness: free timed out, /proc/meminfo has MemTotal, MemFree and
\* MemAvailable, and the result holds the formatted MemAvailable, not MemFree.
C7_Witness ==
    /\ Done("get_ram_usage")
    /\ call.run.kind = "timeout"
    /\ call.meminfo.readable
    /\ MeminfoBytes(call.meminfo, "MemTotal") = {8000 * 1024}
    /\ MeminfoBytes(call.meminfo, "MemFree") = {1024 * 1024}
    /\ MeminfoBytes(call.meminfo, "MemAvailable") = {3440 * 1024}
    /\ ret.value.available = [fmt |-> "bytes", tenths |-> 34, unit |-> "MB"]
    /\ ret.value.used = [fmt |-> "bytes", tenths |-> 45, unit |-> "MB"]
    /\ ret.value.use_percent = 56

\* The lines of df, after the header, that have at least 6 columns.
DfRows(run) == {i \in 2..Len(run.stdout) : Len(run.stdout[i]) >= 6}

AllAsciiDigits(cs) == Len(cs) > 0 /\ \A i \in 1..Len(cs) : cs[i] \in AsciiDigits

\* cs is col without its trailing "%" signs.
IsStripped(cs, col) ==
    /\ Len(cs) <= Len(col)
    /\ cs = SubSeq(col, 1, Len(cs))
    /\ \A i \in (Len(cs) + 1)..Len(col) : col[i] = "%"
    /\ Len(cs) > 0 => cs[Len(cs)] # "%"

\* C8: a successful get_disk_usage returns normally one entry per df line of 6
\* columns or more, ordered so that use_percent_num never increases from one
\* entry to the next; every use_percent_num is a natural number, the decimal
\* value of the percent column without its trailing "%" when that is all digits
\* and 0 otherwise.
C8_DisksSortedDescending ==
    (Done("get_disk_usage") /\ "disks" \in DOMAIN ret.value) =>
        LET disks == ret.value.disks IN
        /\ ret.kind = "return"
        /\ \A i \in 1..Len(disks), j \in 1..Len(disks) :
              i < j => disks[i].use_percent_num >= disks[j].use_percent_num
        /\ \A i \in 1..Len(disks) : disks[i].use_percent_num \in Nat
        /\ Len(disks) = Cardinality(DfRows(call.run))
        /\ \A r \in DfRows(call.run) :
              \E i \in 1..Len(disks) :
                 LET col == call.run.stdout[r][5]
                     cs == CHOOSE x \in {SubSeq(col, 1, k) : k \in 0..Len(col)} :
                              IsStripped(x, col)
                 IN /\ disks[i].filesystem = Lit(call.run.stdout[r][1])
                    /\ disks[i].use_percent_num =
                          IF AllAsciiDigits(cs) THEN PyInt(cs) ELSE 0

\* C8 witness: df listed a file system with "-" before one with "17%", and the
\* result has the 17 entry first and the 0 entry of "-" after it.
C8_Witness ==
    /\ Done("get_disk_usage")
    /\ "disks" \in DOMAIN ret.value
    /\ Len(call.run.stdout) = 3
    /\ call.run.stdout[2][5] = <<"-">>
    /\ call.run.stdout[3][5] = <<"1", "7", "%">>
    /\ Len(ret.value.disks) = 2
    /\ ret.value.disks[1].use_percent_num = 17
    /\ ret.value.disks[2].use_percent_num = 0
    /\ ret.value.disks[2].filesystem = Lit(call.run.stdout[2][1])

\* C9 as claimed: every entry's use_percent is the percent column of its df line
\* as printed, "%" sign included.
C9_UsePercentHasSign ==
    (Done("get_disk_usage") /\ "disks" \in DOMAIN ret.value) =>
        \A r \in DfRows(call.run) :
           \E i \in 1..Len(ret.value.disks) :
              /\ ret.value.disks[i].filesystem = Lit(call.run.stdout[r][1])
              /\ ret.value.disks[i].use_percent = Chars(call.run.stdout[r][5])

\* C9 amended: every entry's use_percent is the percent column of its df line
\* with every trailing "%" removed ("42" for "42%"), and its use_percent_num is
\* the integer that text denotes, 0 when it is not all digits.
C9_UsePercentStripped ==
    (Done("get_disk_usage") /\ "disks" \in DOMAIN ret.value) =>
        \A r \in DfRows(call.run) :
           \E i \in 1..Len(ret.value.disks) :
              LET e == ret.value.disks[i] IN
              /\ e.filesystem = Lit(call.run.stdout[r][1])
              /\ e.use_percent.fmt = "chars"
              /\ IsStripped(e.use_percent.cs, call.run.stdout[r][5])
              /\ e.use_percent_num =
                    IF AllAsciiDigits(e.use_percent.cs) THEN PyInt(e.use_percent.cs) ELSE 0

\* C9 witness: df printed "17%" and the entry holds "17" and 17.
C9_Witness ==
    /\ Done("get_disk_usage")
    /\ "disks" \in DOMAIN ret.value
    /\ Len(call.run.stdout) = 2
    /\ call.run.stdout[2][5] = <<"1", "7", "%">>
    /\ ret.value.disks[1].use_percent = Chars(<<"1", "7">>)
    /\ ret.value.disks[1].use_percent_num = 17

IsLogCall == Done("get_service_logs") \/ Done("get_full_journal")

IsJsonLine(line) == line.kind = "json"

\* C10: in both log modes, when journalctl exits with code 0 the result is the
\* list of the parsed records of exactly the output lines that are JSON, in
\* their order (blank lines and lines that are no JSON are left out, the rest
\* stays); when it exits non-zero the result is a string, its error text or the
\* generic message of the mode, and no list.
C10_LogLinesParsedIndependently ==
    (IsLogCall /\ call.run.kind = "completed") =>
        /\ ret.kind = "return"
        /\ call.run.returncode = 0 =>
              LET records == SelectSeq(call.run.stdout, IsJsonLine) IN
              ret.value = [fmt |-> "list",
                           items |-> [i \in 1..Len(records) |->
                                         [fmt |-> "dict", MESSAGE |-> records[i].id]]]
        /\ call.run.returncode # 0 =>
              /\ ret.value.fmt = "lit"
              /\ ret.value.s =
                    IF call.run.stderr # "" THEN call.run.stderr
                    ELSE IF call.op = "get_service_logs" THEN "Error getting logs"
                    ELSE "Error getting journal"

\* C10 witness: journalctl exited 0 with a record, a line that is no JSON and
\* another record; the result lists the two records in order.
C10_Witness ==
    /\ Done("get_full_journal")
    /\ call.run.kind = "completed"
    /\ call.run.returncode = 0
    /\ call.run.stdout = <<JsonLine(2), TextLine, JsonLine(1)>>
    /\ ret.value.fmt = "list"
    /\ Len(ret.value.items) = 2
    /\ ret.value.items[1].MESSAGE = 2
    /\ ret.value.items[2].MESSAGE = 1

IsRequest(method) == "method" \in DOMAIN request /\ request.method = method

IsControlRequest ==
    /\ IsRequest("POST")
    /\ StartsWithServices(request.path)
    /\ EndsWith(request.path, "control")

HasValidAction(body) ==
    /\ body.json = "object"
    /\ "action" \in DOMAIN body.fields
    /\ body.fields.action \in {"start", "stop", "restart"}

\* C4: a control request whose body names no action among start, stop and
\* restart (another action, no action, a body that is no JSON object or no JSON)
\* is answered with HTTP 400 and runs no privileged command.
C4_InvalidActionRejected ==
    (IsControlRequest /\ ~HasValidAction(request.body)) =>
        /\ response.kind = "response"
        /\ response.status = 400
        /\ invoked = <<>>

IsMonitoringRequest ==
    /\ IsRequest("GET")
    /\ \/ request.path \in {<<"api", "services">>, <<"api", "toggle-states">>,
                            <<"api", "disk-usage">>, <<"api", "ram-usage">>}
       \/ /\ StartsWithServices(request.path)
          /\ EndsWith(request.path, "logs") \/ EndsWith(request.path, "journal")

\* C6: every GET request to a monitoring endpoint is answered with HTTP 200 and
\* a JSON body, whatever the lines query value is and whatever the tools do; no
\* exception escapes the handler.
C6_MonitoringAlways200 ==
    IsMonitoringRequest =>
        /\ response.kind = "response"
        /\ response.status = 200
        /\ response.content_type = "application/json"


\* The number of limbs of a byte count up to its highest non-zero one.
Significant(limbs) ==
    IF IsZero(limbs) THEN 0
    ELSE CHOOSE n \in 1..Len(limbs) : limbs[n] # 0 /\ IsZero(SubSeq(limbs, n + 1, Len(limbs)))

\* k such that 1024^k <= b < 1024^(k+1), never above 4 (0 when b < 1024).
UnitExponent(limbs) ==
    LET n == Significant(limbs) IN IF n <= 1 THEN 0 ELSE IF n >= 5 THEN 4 ELSE n - 1

\* C11: _format_bytes(b), b >= 0, gives B below 1024, KB below 1024^2, MB below
\* 1024^3, GB below 1024^4 and TB from there on, however large b is, and the
\* number before the unit is b / 1024^k to one decimal: it is within half a
\* tenth of b / 1024^k (measured on the two base-1024 digits after the point,
\* the digits below them adding less than one unit of the second).
C11_FormatBytesUnits ==
    Done("_format_bytes") =>
        LET b == call.bytes_val
            k == UnitExponent(b)
            whole == LimbsValue(SubSeq(b, k + 1, Len(b)))
            f1 == IF k >= 1 THEN b[k] ELSE 0
            f2 == IF k >= 2 THEN b[k - 1] ELSE 0
            exact == k <= 2 \/ IsZero(SubSeq(b, 1, k - 2))
            t == ret.value.tenths
            D == 2 * Base * Base * (t - 10 * whole) - 20 * (Base * f1 + f2)
        IN /\ ret.value.fmt = "bytes"
           /\ ret.value.unit = <<"B", "KB", "MB", "GB", "TB">>[k + 1]
           /\ D >= -(Base * Base)
           /\ D <= Base * Base + (IF exact THEN 0 ELSE 19)

\* C11 witness: a count of 1024^5 or more is given in TB, with a decimal
\* that is not 0.
C11_Witness ==
    /\ Done("_format_bytes")
    /\ call.bytes_val[6] # 0
    /\ ret.value.unit = "TB"
    /\ ret.value.tenths % 10 # 0


\* C12: for a timestamp that parses and lies e >= 0 seconds before now,
\* _calculate_uptime gives "{e}s" below a minute, whole minutes below an hour,
\* whole hours and the minutes left over below a day, whole days and the hours
\* left over from there on (45 -> "45s", 3725 -> "1h 2m", 90000 -> "1d 1h");
\* a text without the date pattern, or digits that are no date, give "N/A".
C12_UptimeBuckets ==
    Done("_calculate_uptime") =>
        LET ts == call.timestamp_str
            v == ret.value
        IN /\ ret.kind = "return"
           /\ (ts.kind = "nopattern" \/ (ts.kind = "stamp" /\ ~ts.valid)) => v = NA
           /\ (ts.kind = "stamp" /\ ts.valid /\ call.now - ts.at >= 0) =>
                LET e == call.now - ts.at IN
                /\ v.fmt = "uptime"
                /\ e < 60 => DOMAIN v = {"fmt", "s"} /\ v.s = e
                /\ (60 <= e /\ e < 3600) =>
                      /\ DOMAIN v = {"fmt", "m"}
                      /\ 60 * v.m <= e /\ e < 60 * (v.m + 1)
                /\ (3600 <= e /\ e < 86400) =>
                      /\ DOMAIN v = {"fmt", "h", "m"}
                      /\ v.m \in 0..59
                      /\ 3600 * v.h + 60 * v.m <= e /\ e < 3600 * v.h + 60 * (v.m + 1)
                /\ e >= 86400 =>
                      /\ DOMAIN v = {"fmt", "d", "h"}
                      /\ v.h \in 0..23
                      /\ 86400 * v.d + 3600 * v.h <= e /\ e < 86400 * v.d + 3600 * (v.h + 1)
                /\ e = 45 => v = [fmt |-> "uptime", s |-> 45]
                /\ e = 3725 => v = [fmt |-> "uptime", h |-> 1, m |-> 2]
                /\ e = 90000 => v = [fmt |-> "uptime", d |-> 1, h |-> 1]

\* C12 witness: a unit activated 3725 seconds ago is up "1h 2m".
C12_Witness ==
    /\ Done("_calculate_uptime")
    /\ call.timestamp_str.kind = "stamp"
    /\ call.timestamp_str.valid
    /\ call.now - call.timestamp_str.at = 3725
    /\ ret.value = [fmt |-> "uptime", h |-> 1, m |-> 2]


\* The alphabet's order on the service names.
NameRank == [cron |-> 1, nginx |-> 2, sshd |-> 3]

IsGetServices == IsRequest("GET") /\ request.path = <<"api", "services">>

\* C13: GET /api/services answers with exactly one status record per tracked
\* service, in ascending order of name, and each record tells what systemctl
\* answered for that service alone: a timeout or an error for one service
\* degrades its record only, the others are queried and listed all the same.
C13_OneStatusPerTrackedService ==
    IsGetServices =>
        LET body == response.body IN
        /\ response.kind = "response"
        /\ response.status = 200
        /\ Len(body) = Cardinality(BagToSet(tracked_services))
        /\ {body[i].name : i \in 1..Len(body)} = BagToSet(tracked_services)
        /\ \A i, j \in 1..Len(body) : i < j => NameRank[body[i].name] < NameRank[body[j].name]
        /\ \A i \in 1..Len(body) :
              LET runs == request.status_runs[body[i].name]
                  last == runs[Len(runs)]
              IN /\ last.kind = "timeout" =>
                       body[i].status = Lit("Timeout") /\ body[i].state = Lit("unknown")
                 /\ last.kind \notin {"timeout", "completed"} => body[i].state = Lit("error")
                 /\ last.kind = "completed" =>
                       /\ body[i].status = Lit(runs[1].stdout)
                       /\ body[i].state = Lit(PyStrip(runs[2].stdout))
                       /\ body[i].active = (PyStrip(runs[2].stdout) = "active")

\* C13 witness: three services are tracked, systemctl times out for the second
\* only, and the answer lists the first and the third as active.
C13_Witness ==
    /\ IsGetServices
    /\ response.kind = "response"
    /\ Len(response.body) = 3
    /\ response.body[1].active
    /\ response.body[2].state = Lit("unknown")
    /\ response.body[3].active
    /\ response.body[3].name = "sshd"


\* What get_all_toggle_states returns when every pair holds its latest write.
LatestToggleStates ==
    LET written == {p \in Pairs : lastWrite'[p] # {}} IN
    [s \in {p[1] : p \in written} |->
        [t \in {p[2] : p \in {q \in written : q[1] = s}} |->
            CHOOSE v \in lastWrite'[<<s, t>>] : TRUE]]

C14_Step ==
    /\ call'.op \in {"remove_service", "add_service"} =>
          /\ service_toggles' = service_toggles
          /\ \A p \in Pairs : get_toggle_state(service_toggles', p[1], p[2])
                                 = get_toggle_state(service_toggles, p[1], p[2])
          /\ get_all_toggle_states(service_toggles') = get_all_toggle_states(service_toggles)
    /\ call'.op = "set_toggle_state" =>
          /\ tracked_services' = tracked_services
          /\ ret'.kind = "return"
          /\ RowsOf(service_toggles', call'.service_name, call'.toggle_type)
               = {ToggleRow(call'.service_name, call'.toggle_type, call'.is_expanded)}
    /\ call'.op = "get_all_toggle_states" => ret'.value = LatestToggleStates

\* C14: the registry and the toggle store are independent.  remove_service(n)
\* leaves every toggle row as it is, the rows of n included, and so does adding
\* n again, so the toggle states written earlier are still the ones returned;
\* set_toggle_state never changes the registry and writes its row whether or
\* not the service is tracked.
C14_RegistryAndTogglesIndependent == [][C14_Step]_vars

\* C14 witness: a tracked service with a toggle written True has been removed,
\* and its toggle row is still there.
C14_Witness ==
    /\ call.op = "remove_service"
    /\ CopiesIn(call.service_name, call.before) = 1
    /\ CopiesIn(call.service_name, tracked_services) = 0
    /\ lastWrite[<<call.service_name, "logs">>] = {TRUE}
    /\ RowsOf(service_toggles, call.service_name, "logs")
         = {ToggleRow(call.service_name, "logs", TRUE)}

====
